---- MODULE Spec2Model ----
(***************************************************************************)
(* Skyscrapers solver of src/algorithm.py: SkyscraperValidator (feasibility *)
(* checks) and SkyscraperSolver (pre-fill pass and backtracking search).    *)
(* Python indexes rows, columns and clues from 0; the model indexes them    *)
(* from 1, so Python's board[r][c] is board[r + 1][c + 1] here and the      *)
(* value "i + 1" written at Python index i is the 1-based index itself.     *)
(***************************************************************************)
EXTENDS Integers, Sequences, FiniteSets, TLC

VARIABLES
    board_size,     \* BaseSolver.board_size (N)
    left_clues,     \* SkyscraperSolver.left_clues  (= validator.left_clues)
    top_clues,      \* SkyscraperSolver.top_clues
    right_clues,    \* SkyscraperSolver.right_clues
    bottom_clues,   \* SkyscraperSolver.bottom_clues
    init_board,     \* the board the caller passed to the constructor
    board,          \* BaseSolver.board, the solver's own deep copy
    stack,          \* the activation records of search_solution, root first
    result,         \* what solve() returned: None or <<a board>>
    pc              \* "new", "constructed", "searching", "done"

vars == <<board_size, left_clues, top_clues, right_clues, bottom_clues,
          init_board, board, stack, result, pc>>

clue_vars == <<board_size, left_clues, top_clues, right_clues, bottom_clues,
               init_board>>

-----------------------------------------------------------------------------
(* Bounds of the checked input space.                                      *)

\* size-3 clue sets differ from a solvable clue set in at most this many entries
MaxPerturb == 1
\* size-3 boards carry at most this many caller-supplied givens
MaxGivens == 1

-----------------------------------------------------------------------------
(* Python values.                                                          *)

\* Python's None, for an Optional result or an unbound local
None == <<>>

ROW == "ROW"
COLUMN == "COLUMN"

-----------------------------------------------------------------------------
(* SkyscraperValidator                                                     *)

RECURSIVE count_visible_from(_, _, _)
\* the loop of count_visible from position k on, max_height being the
\* running maximum; heights are >= 0, so -1 stands for -float("inf")
count_visible_from(values, k, max_height) ==
    IF k > Len(values) THEN 0
    ELSE IF values[k] > max_height
         THEN 1 + count_visible_from(values, k + 1, values[k])
         ELSE count_visible_from(values, k + 1, max_height)

count_visible(values) == count_visible_from(values, 1, -1)

\* values[::-1]
Reversed(values) == [k \in 1..Len(values) |-> values[Len(values) + 1 - k]]

\* the row or the column `index` of board b, as _respect_clues gathers it
LineOf(b, index, axis) ==
    IF axis = ROW THEN b[index]
    ELSE [r \in 1..Len(top_clues) |-> b[r][index]]

is_full(b, index, axis) ==
    IF axis = ROW
    THEN \A k \in 1..Len(b[index]) : b[index][k] # 0
    ELSE \A i \in 1..Len(top_clues) : b[i][index] # 0

\* respect_clues with the partial line held to "fewer than" its start clue
\* instead of "at most"
respect_clues_strict(b, index, axis) ==
    LET values == LineOf(b, index, axis)
        start_clue == IF axis = ROW THEN left_clues[index] ELSE top_clues[index]
        end_clue == IF axis = ROW THEN right_clues[index] ELSE bottom_clues[index]
        start_count == count_visible(values)
    IN  IF is_full(b, index, axis)
        THEN start_count = start_clue /\ count_visible(Reversed(values)) = end_clue
        ELSE start_count < start_clue

\* respect_clues with the complete line held to "at most" its clues as the
\* partial line is, instead of "exactly"
respect_clues_at_most(b, index, axis) ==
    LET values == LineOf(b, index, axis)
        start_clue == IF axis = ROW THEN left_clues[index] ELSE top_clues[index]
        end_clue == IF axis = ROW THEN right_clues[index] ELSE bottom_clues[index]
        start_count == count_visible(values)
    IN  IF is_full(b, index, axis)
        THEN start_count <= start_clue /\ count_visible(Reversed(values)) <= end_clue
        ELSE start_count <= start_clue

respect_clues(b, index, axis) ==
    LET values == LineOf(b, index, axis)
        start_clue == IF axis = ROW THEN left_clues[index] ELSE top_clues[index]
        end_clue == IF axis = ROW THEN right_clues[index] ELSE bottom_clues[index]
        start_count == count_visible(values)
    IN  IF is_full(b, index, axis)
        THEN start_count = start_clue /\ count_visible(Reversed(values)) = end_clue
        ELSE start_count <= start_clue

\* the loop returns at its first iteration that passes; every iteration
\* evaluates the same two calls
is_valid_solution(b, row, col) ==
    \E i \in 1..Len(top_clues) :
        respect_clues(b, row, ROW) /\ respect_clues(b, col, COLUMN)

\* the value returned and the contents of the argument board after the call
can_place_number(b, row, col, num) ==
    IF \E i \in 1..Len(top_clues) : b[i][col] = num \/ b[row][i] = num
    THEN [ret |-> FALSE, board |-> b]
    ELSE LET placed == [b EXCEPT ![row][col] = num]
         IN  [ret |-> is_valid_solution(placed, row, col), board |-> placed]

-----------------------------------------------------------------------------
(* SkyscraperSolver: the pre-fill pass                                     *)

\* board[index][k] = v for a row, board[k][index] = v for a column
SetCell(b, axis, index, k, v) ==
    IF axis = ROW THEN [b EXCEPT ![index][k] = v]
    ELSE [b EXCEPT ![k][index] = v]

RECURSIVE FillLine(_, _, _, _, _)
\* the inner "for i in range(self.board_size)" loops: position k gets
\* k when ascending (i + 1 at Python index i), board_size + 1 - k when
\* descending (i + 1 at Python index board_size - 1 - i)
FillLine(b, axis, index, ascending, k) ==
    IF k > board_size THEN b
    ELSE FillLine(SetCell(b, axis, index, k,
                          IF ascending THEN k ELSE board_size + 1 - k),
                  axis, index, ascending, k + 1)

\* one iteration of the outer loop: the start clue, then the end clue
PlaceObviousAt(b, axis, clues_start, clues_end, index) ==
    LET after_start ==
            IF clues_start[index] = 1
            THEN SetCell(b, axis, index, 1, board_size)
            ELSE IF clues_start[index] = board_size
                 THEN FillLine(b, axis, index, TRUE, 1)
                 ELSE b
    IN  IF clues_end[index] = 1
        THEN SetCell(after_start, axis, index, board_size, board_size)
        ELSE IF clues_end[index] = board_size
             THEN FillLine(after_start, axis, index, FALSE, 1)
             ELSE after_start

RECURSIVE PlaceObviousFrom(_, _, _, _, _)
PlaceObviousFrom(b, axis, clues_start, clues_end, index) ==
    IF index > board_size THEN b
    ELSE PlaceObviousFrom(PlaceObviousAt(b, axis, clues_start, clues_end, index),
                          axis, clues_start, clues_end, index + 1)

place_obvious_by_axis(b, axis, clues_start, clues_end) ==
    PlaceObviousFrom(b, axis, clues_start, clues_end, 1)

place_obvious_numbers(b) ==
    place_obvious_by_axis(
        place_obvious_by_axis(b, ROW, left_clues, right_clues),
        COLUMN, top_clues, bottom_clues)

-----------------------------------------------------------------------------
(* SkyscraperSolver: the search                                            *)

\* the first empty cell in row-major order, or None
find_empty_cell(b) ==
    LET empty == {rc \in (1..board_size) \X (1..board_size) : b[rc[1]][rc[2]] = 0}
    IN  IF empty = {} THEN None
        ELSE CHOOSE rc \in empty :
                \A other \in empty :
                    rc[1] < other[1] \/ (rc[1] = other[1] /\ rc[2] <= other[2])

\* the activation record of search_solution(b) on entry: its argument, the
\* empty cell it found, the next candidate of its loop, and the local
\* copied_board with the outcome of the probe made on it
Frame(b) ==
    [board |-> b, empty_cell |-> find_empty_cell(b), num |-> 1,
     copied_board |-> None, probe |-> "idle"]

Top == stack[Len(stack)]

\* the callers' frames once the callee returned None: the caller's loop
\* moves to its next candidate
ReturnNone ==
    IF Len(stack) = 1
    THEN /\ stack' = <<>>
         /\ result' = None
         /\ pc' = "done"
    ELSE /\ stack' = [SubSeq(stack, 1, Len(stack) - 1) EXCEPT
                        ![Len(stack) - 1].num = @ + 1,
                        ![Len(stack) - 1].probe = "idle"]
         /\ UNCHANGED <<result, pc>>

\* the terminal test left out: a board with no empty cell is returned as is
LeafUnchecked(b) == TRUE

\* the terminal test made when no empty cell remains
LeafValid(b) == \E i \in 1..board_size : is_valid_solution(b, i, i)

-----------------------------------------------------------------------------
(* Inputs                                                                  *)

Lines(n) == [1..n -> 1..n]

AllClueSets(n) ==
    [left : Lines(n), top : Lines(n), right : Lines(n), bottom : Lines(n)]

Perms(n) == {p \in Lines(n) : \A i, j \in 1..n : i # j => p[i] # p[j]}

LatinSquares(n) ==
    {sq \in [1..n -> Perms(n)] :
        \A c \in 1..n : \A r1, r2 \in 1..n : r1 # r2 => sq[r1][c] # sq[r2][c]}

\* the visible counts of a full grid from its four sides
CluesOf(sq) ==
    LET n == Len(sq)
        col(c) == [r \in 1..n |-> sq[r][c]]
    IN  [left |-> [r \in 1..n |-> count_visible(sq[r])],
         top |-> [c \in 1..n |-> count_visible(col(c))],
         right |-> [r \in 1..n |-> count_visible(Reversed(sq[r]))],
         bottom |-> [c \in 1..n |-> count_visible(Reversed(col(c)))]]

Sides == {"left", "top", "right", "bottom"}

RECURSIVE Perturbed(_, _, _)
\* the clue sets that differ from one of S in at most k entries
Perturbed(S, n, k) ==
    IF k = 0 THEN S
    ELSE Perturbed(S \cup {[cs EXCEPT ![x[1]][x[2]] = x[3]] :
                              cs \in S, x \in Sides \X (1..n) \X (1..n)},
                   n, k - 1)

ZeroBoard(n) == [r \in 1..n |-> [c \in 1..n |-> 0]]

AllBoards(n) == [1..n -> [1..n -> 0..n]]

BoardsWithGivens(n, k) ==
    {b \in AllBoards(n) :
        Cardinality({rc \in (1..n) \X (1..n) : b[rc[1]][rc[2]] # 0}) <= k}

Puzzle(n, cs, b) ==
    [n |-> n, left |-> cs.left, top |-> cs.top, right |-> cs.right,
     bottom |-> cs.bottom, board |-> b]

\* sizes 1 and 2: every clue set with every board
SmallInputs ==
    {Puzzle(1, cs, b) : cs \in AllClueSets(1), b \in AllBoards(1)}
    \cup
    {Puzzle(2, cs, b) : cs \in AllClueSets(2), b \in AllBoards(2)}

\* the clue sets some Latin square of size n satisfies
SolvableClueSets(n) == {CluesOf(sq) : sq \in LatinSquares(n)}

\* size 3: the solvable clue sets and their neighbours from the empty
\* board, and the solvable clue sets from every board with few givens
SearchInputs ==
    {Puzzle(3, cs, ZeroBoard(3)) :
        cs \in Perturbed(SolvableClueSets(3), 3, MaxPerturb)}
    \cup
    {Puzzle(3, cs, b) :
        cs \in SolvableClueSets(3), b \in BoardsWithGivens(3, MaxGivens)}

\* size 4, the end-to-end scenario of the specification
Scenario4 ==
    [left |-> <<1, 2, 3, 4>>, top |-> <<4, 3, 2, 1>>,
     right |-> <<4, 3, 2, 1>>, bottom |-> <<1, 2, 3, 4>>]

\* size 4, a Latin square and the puzzle it solves
Square4 ==
    << <<2, 3, 1, 4>>,
       <<1, 4, 2, 3>>,
       <<4, 1, 3, 2>>,
       <<3, 2, 4, 1>> >>

\* size 2, the unsatisfiable scenario of the specification
Scenario2 ==
    [left |-> <<2, 2>>, top |-> <<1, 1>>, right |-> <<2, 2>>, bottom |-> <<1, 1>>]

ScenarioInputs ==
    {Puzzle(4, Scenario4, ZeroBoard(4)),
     Puzzle(4, CluesOf(Square4), ZeroBoard(4)),
     Puzzle(2, Scenario2, ZeroBoard(2))}

Inputs == SmallInputs \cup SearchInputs \cup ScenarioInputs

-----------------------------------------------------------------------------
(* The state machine                                                       *)

\* SkyscraperSolver.__init__ up to the validator: the deep copy of the
\* caller's board and the clue attributes
Init ==
    \E p \in Inputs :
        /\ board_size = p.n
        /\ left_clues = p.left
        /\ top_clues = p.top
        /\ right_clues = p.right
        /\ bottom_clues = p.bottom
        /\ init_board = p.board
        /\ board = p.board
        /\ stack = <<>>
        /\ result = None
        /\ pc = "new"

\* the last statement of __init__: self.place_obvious_numbers()
Construct ==
    /\ pc = "new"
    /\ board' = place_obvious_numbers(board)
    /\ pc' = "constructed"
    /\ UNCHANGED <<clue_vars, stack, result>>

\* BaseSolver.solve: the pre-fill pass again, then search_solution(self.board)
Solve ==
    /\ pc = "constructed"
    /\ board' = place_obvious_numbers(board)
    /\ stack' = <<Frame(board')>>
    /\ pc' = "searching"
    /\ UNCHANGED <<clue_vars, result>>

\* no empty cell and the terminal test passes: the board is returned, and
\* every caller returns it in turn
LeafAccept ==
    /\ pc = "searching"
    /\ Top.empty_cell = None
    /\ LeafValid(Top.board)
    /\ result' = <<Top.board>>
    /\ stack' = <<>>
    /\ pc' = "done"
    /\ UNCHANGED <<clue_vars, board>>

\* no empty cell and the terminal test fails: return None
LeafReject ==
    /\ pc = "searching"
    /\ Top.empty_cell = None
    /\ ~LeafValid(Top.board)
    /\ ReturnNone
    /\ UNCHANGED <<clue_vars, board>>

\* copied_board = deepcopy(board); can_place_number(copied_board, r, c, num)
Probe ==
    /\ pc = "searching"
    /\ Top.empty_cell # None
    /\ Top.probe = "idle"
    /\ Top.num <= board_size
    /\ LET call == can_place_number(Top.board, Top.empty_cell[1],
                                    Top.empty_cell[2], Top.num)
       IN  stack' = [stack EXCEPT
                        ![Len(stack)].copied_board = call.board,
                        ![Len(stack)].probe =
                            IF call.ret THEN "accepted" ELSE "rejected"]
    /\ UNCHANGED <<clue_vars, board, result, pc>>

\* Descend with the recursive call made on board instead of copied_board
DescendOnSameBoard ==
    /\ pc = "searching"
    /\ Top.empty_cell # None
    /\ Top.probe = "accepted"
    /\ LET committed == [Top.copied_board EXCEPT
                            ![Top.empty_cell[1]][Top.empty_cell[2]] = Top.num]
       IN  stack' = Append([stack EXCEPT ![Len(stack)].copied_board = committed],
                           Frame(Top.board))
    /\ UNCHANGED <<clue_vars, board, result, pc>>

\* the probe passed: copied_board[r][c] = num and the recursive call
Descend ==
    /\ pc = "searching"
    /\ Top.empty_cell # None
    /\ Top.probe = "accepted"
    /\ LET committed == [Top.copied_board EXCEPT
                            ![Top.empty_cell[1]][Top.empty_cell[2]] = Top.num]
       IN  stack' = Append([stack EXCEPT ![Len(stack)].copied_board = committed],
                           Frame(committed))
    /\ UNCHANGED <<clue_vars, board, result, pc>>

\* the probe failed: the loop moves to the next candidate
NextCandidate ==
    /\ pc = "searching"
    /\ Top.empty_cell # None
    /\ Top.probe = "rejected"
    /\ stack' = [stack EXCEPT ![Len(stack)].num = @ + 1,
                              ![Len(stack)].probe = "idle"]
    /\ UNCHANGED <<clue_vars, board, result, pc>>

\* the loop ran out of candidates: return None
Exhausted ==
    /\ pc = "searching"
    /\ Top.empty_cell # None
    /\ Top.probe = "idle"
    /\ Top.num > board_size
    /\ ReturnNone
    /\ UNCHANGED <<clue_vars, board>>

Next ==
    \/ Construct
    \/ Solve
    \/ LeafAccept
    \/ LeafReject
    \/ Probe
    \/ Descend
    \/ NextCandidate
    \/ Exhausted

Spec == Init /\ [][Next]_vars

\* the solver is one sequential call: a step that can be taken is taken
FairSpec == Spec /\ WF_vars(Next)

-----------------------------------------------------------------------------
(* Vocabulary of the properties                                            *)

Idx == 1..board_size

Clues ==
    [left |-> left_clues, top |-> top_clues, right |-> right_clues,
     bottom |-> bottom_clues]

Returned == pc = "done" /\ result # None

ReturnedNone == pc = "done" /\ result = None

ReturnedBoard == result[1]

ColumnOf(b, c) == [r \in 1..Len(b) |-> b[r][c]]

\* every row and every column of b holds each of 1..N exactly once
IsLatin(b) ==
    /\ \A r \in Idx : \A v \in Idx : Cardinality({c \in Idx : b[r][c] = v}) = 1
    /\ \A c \in Idx : \A v \in Idx : Cardinality({r \in Idx : b[r][c] = v}) = 1

\* the visible counts of b from all four sides are the clues
MeetsClues(b) ==
    /\ \A r \in Idx :
        /\ count_visible(b[r]) = left_clues[r]
        /\ count_visible(Reversed(b[r])) = right_clues[r]
    /\ \A c \in Idx :
        /\ count_visible(ColumnOf(b, c)) = top_clues[c]
        /\ count_visible(Reversed(ColumnOf(b, c))) = bottom_clues[c]

\* some Latin square over 1..N satisfies all four clue arrays
Solvable == \E sq \in LatinSquares(board_size) : CluesOf(sq) = Clues

EmptyStart == init_board = ZeroBoard(board_size)

-----------------------------------------------------------------------------
(* C1 .. C3: what solve() returns                                          *)

\* C1: whenever solve returns a board, every row of it shows its left clue
\* from the left and its right clue from the right, and every column its
\* top clue from the top and its bottom clue from the bottom.
C1_ReturnedBoardMeetsClues == Returned => MeetsClues(ReturnedBoard)

\* C2: whenever solve, started from an all-zero board, returns a board,
\* every row and every column of it holds each value of 1..N exactly once.
C2_ReturnedBoardIsLatin == (Returned /\ EmptyStart) => IsLatin(ReturnedBoard)

\* C3: started from an all-zero board, solve returns None only if no Latin
\* square over 1..N satisfies the four clue arrays.
C3_NoneOnlyIfUnsolvable == (ReturnedNone /\ EmptyStart) => ~Solvable

-----------------------------------------------------------------------------
(* C4: termination of the search                                           *)

Empties(b) == Cardinality({rc \in Idx \X Idx : b[rc[1]][rc[2]] = 0})

\* every recursive call is on a board with strictly fewer empty cells than
\* its caller's, at most N * N calls are nested below the first one, and a
\* call has tried at most N candidates
SearchBounded ==
    /\ \A k \in 2..Len(stack) :
          Empties(stack[k].board) < Empties(stack[k - 1].board)
    /\ Len(stack) <= board_size * board_size + 1
    /\ \A k \in 1..Len(stack) : stack[k].num - 1 <= board_size

\* C4: search_solution terminates: each recursive call is made on a board
\* with strictly fewer empty cells than its parent's, so the recursion is
\* never deeper than N * N, each node tries at most N candidates, and
\* solve() eventually returns.
C4_SearchTerminates == []SearchBounded /\ <>(pc = "done")

\* a call nested three deep has run out of candidates and is about to return
C4_Witness ==
    /\ pc = "searching"
    /\ Len(stack) >= 4
    /\ Top.empty_cell # None
    /\ Top.num = board_size + 1

-----------------------------------------------------------------------------
(* C5 .. C8: the pre-fill pass, the probe and the givens                   *)

\* C5: every cell that is nonzero in the caller's board holds the same
\* value after the pre-fill pass and in any board solve returns.
C5_GivensFixed ==
    \A r \in Idx : \A c \in Idx :
        init_board[r][c] # 0 =>
            /\ board[r][c] = init_board[r][c]
            /\ Returned => ReturnedBoard[r][c] = init_board[r][c]

\* C6: can_place_number leaves the board it is passed as it found it: the
\* copy search_solution hands it equals the board it was copied from when
\* the call has returned, whatever it returned.
C6_ProbeReadOnly ==
    (pc = "searching" /\ Top.probe # "idle") => Top.copied_board = Top.board

\* C7: after the pre-fill pass on an all-zero board, every row whose left
\* clue is 1 starts with N, and every row whose left clue is N is 1, 2, .., N.
C7_PrefillLeftClues ==
    (pc # "new" /\ EmptyStart) =>
        \A r \in Idx :
            /\ left_clues[r] = 1 => board[r][1] = board_size
            /\ left_clues[r] = board_size => board[r] = [c \in Idx |-> c]

\* the givens hold the same nonzero value twice in one row or one column
DuplicateGivens ==
    \E r \in Idx : \E c1, c2 \in Idx :
        /\ c1 # c2
        /\ \/ init_board[r][c1] # 0 /\ init_board[r][c1] = init_board[r][c2]
           \/ init_board[c1][r] # 0 /\ init_board[c1][r] = init_board[c2][r]

\* C8: when the givens repeat a nonzero value in a row or a column, solve
\* returns None and never a board.
C8_DuplicateGivensRejected == (pc = "done" /\ DuplicateGivens) => result = None

-----------------------------------------------------------------------------
(* C9, C10: the end-to-end scenarios                                       *)

IsScenario4 == board_size = 4 /\ Clues = Scenario4 /\ EmptyStart

IsScenario2 == board_size = 2 /\ Clues = Scenario2 /\ EmptyStart

\* C9 as stated: for N = 4 with left = [1,2,3,4], top = [4,3,2,1],
\* right = [4,3,2,1], bottom = [1,2,3,4] and an all-zero board, solve
\* returns a board that is a Latin square and meets all four clue arrays.
C9_Scenario4Solved ==
    (pc = "done" /\ IsScenario4) =>
        /\ result # None
        /\ IsLatin(ReturnedBoard)
        /\ MeetsClues(ReturnedBoard)

\* C9 amended: for that puzzle solve returns None, and no Latin square
\* over 1..4 meets the four clue arrays.
C9_Scenario4Unsolvable ==
    (pc = "done" /\ IsScenario4) => (result = None /\ ~Solvable)

C9_Witness == pc = "done" /\ IsScenario4 /\ result = None

\* C10: for N = 2 with left = [2,2], right = [2,2], top = [1,1],
\* bottom = [1,1] and an all-zero board, solve returns None.
C10_Scenario2None == (pc = "done" /\ IsScenario2) => result = None

C10_Witness == pc = "done" /\ IsScenario2 /\ result = None

-----------------------------------------------------------------------------
(* C11: the partial-line test of _respect_clues on one line                *)

\* lines of length 1 .. MaxLine are checked
MaxLine == 4

\* a line of length n, 0 for an empty cell, the filled cells pairwise distinct
PartialLines(n) ==
    {l \in [1..n -> 0..n] :
        \A i, j \in 1..n : (i # j /\ l[i] # 0) => l[i] # l[j]}

\* the permutations of 1..n that replace only the zeros of l
Completions(l) ==
    {p \in Perms(Len(l)) : \A k \in 1..Len(l) : l[k] # 0 => p[k] = l[k]}

\* a validator whose row 0 carries the clues a completion shows from its
\* two ends, a board whose row 0 is the partial line (init_board) and one
\* whose row 0 is the completion (board)
LineInit ==
    \E n \in 1..MaxLine :
        \E l \in PartialLines(n) :
            \E p \in Completions(l) :
                /\ board_size = n
                /\ left_clues = <<count_visible(p)>>
                /\ right_clues = <<count_visible(Reversed(p))>>
                /\ top_clues = <<>>
                /\ bottom_clues = <<>>
                /\ init_board = <<l>>
                /\ board = <<p>>
                /\ stack = <<>>
                /\ result = None
                /\ pc = "line"

\* count_visible of the partial line and of its completion, and
\* _respect_clues(board, 0, Axis.ROW) on the partial line
CheckLine ==
    /\ pc = "line"
    /\ result' = [partial |-> count_visible(init_board[1]),
                  complete |-> count_visible(board[1]),
                  respected |-> respect_clues(init_board, 1, ROW)]
    /\ pc' = "line_checked"
    /\ UNCHANGED <<clue_vars, board, stack>>

LineNext == CheckLine

LineSpec == LineInit /\ [][LineNext]_vars

\* the filled cells of the line are a prefix of it: no zero has a filled
\* cell behind it
ZerosTrail(l) == \A i, j \in 1..Len(l) : (i < j /\ l[i] = 0) => l[j] = 0

\* C11 as stated: for every partial line, zeros at any positions, and every
\* completion of it, count_visible(partial) <= count_visible(completion),
\* and _respect_clues accepts the partial line under the completion's clues.
C11_PartialCountMonotone ==
    pc = "line_checked" =>
        (result.partial <= result.complete /\ result.respected)

\* C11 amended: the same for the partial lines whose zeros all trail, that
\* is a filled prefix of the completion followed by empty cells.
C11_PrefixCountMonotone ==
    (pc = "line_checked" /\ ZerosTrail(init_board[1])) =>
        (result.partial <= result.complete /\ result.respected)

\* a proper prefix shows fewer buildings than its completion and is accepted
C11_Witness ==
    /\ pc = "line_checked"
    /\ ZerosTrail(init_board[1])
    /\ init_board[1][1] # 0
    /\ init_board[1] # board[1]
    /\ result.partial < result.complete
    /\ result.respected

-----------------------------------------------------------------------------
(* SolveBoard of src/solveur.py, the solver main.py runs.                  *)
(* clues_horiz is (top, down) and clues_verti is (left, right): they are   *)
(* held in top_clues, bottom_clues, left_clues and right_clues, and self.N *)
(* in board_size.  A board is a mutable list: solve_recursive's            *)
(* current_board is the very list its caller holds as new_board, so what   *)
(* the callee writes into it the caller sees once the callee has returned. *)

full(b, i, to_check) ==
    IF to_check = "row"
    THEN \A k \in 1..Len(b[i]) : b[i][k] # 0
    ELSE \A c \in 1..board_size : b[c][i] # 0

respect_clues_horiz(b, r) ==
    LET left == count_visible(b[r])
        right == count_visible(Reversed(b[r]))
    IN  IF full(b, r, "row")
        THEN left = left_clues[r] /\ right = right_clues[r]
        ELSE left <= left_clues[r]

respect_clues_verti(b, c) ==
    LET column == [j \in 1..board_size |-> b[j][c]]
        top == count_visible(column)
        down == count_visible(Reversed(column))
    IN  IF full(b, c, "col")
        THEN top = top_clues[c] /\ down = bottom_clues[c]
        ELSE top <= top_clues[c]

\* the value returned and the contents of current_board after the call
is_valid(b, r, c, num) ==
    IF \E i \in 1..board_size : b[i][c] = num \/ b[r][i] = num
    THEN [ret |-> FALSE, board |-> b]
    ELSE LET placed == [b EXCEPT ![r][c] = num]
         IN  [ret |-> respect_clues_horiz(placed, r) /\ respect_clues_verti(placed, c),
              board |-> placed]

\* the columns by (top, down): the writes of _place_obvious_by_axis on
\* Axis.COLUMN, cell for cell
place_obvious_numbers_horizontal(b) ==
    place_obvious_by_axis(b, COLUMN, top_clues, bottom_clues)

\* the rows by (left, right)
place_obvious_numbers_vertical(b) ==
    place_obvious_by_axis(b, ROW, left_clues, right_clues)

solveboard_place_obvious_numbers(b) ==
    place_obvious_numbers_vertical(place_obvious_numbers_horizontal(b))

\* the activation record of solve_recursive(b, r, c) on entry; at is where
\* its loop stands: "loop" before is_valid, "first" and "second" inside the
\* two recursive calls, "between" when the first has returned None
SolveFrame(b) ==
    [current_board |-> b, empty_cell |-> find_empty_cell(b), num |-> 1,
     new_board |-> None, at |-> "loop"]

\* the callee returned None: the caller's new_board is the list the callee
\* worked on; after the first call comes the second, after the second the
\* next candidate
SolveReturnNone ==
    IF Len(stack) = 1
    THEN /\ stack' = <<>>
         /\ result' = None
         /\ pc' = "sb_done"
    ELSE /\ stack' =
            LET caller == stack[Len(stack) - 1]
            IN  [SubSeq(stack, 1, Len(stack) - 1) EXCEPT
                    ![Len(stack) - 1] =
                        IF caller.at = "first"
                        THEN [caller EXCEPT !.new_board = Top.current_board,
                                            !.at = "between"]
                        ELSE [caller EXCEPT !.new_board = Top.current_board,
                                            !.at = "loop",
                                            !.num = @ + 1]]
         /\ UNCHANGED <<result, pc>>

\* the terminal test: every row i and every column i
SolveLeafValid(b) ==
    \A i \in 1..board_size : respect_clues_horiz(b, i) /\ respect_clues_verti(b, i)

\* main.py starts from Game's all-zero board; sizes 1 and 2 with every clue
\* set, size 3 with the clue sets of SearchInputs
SolveBoardInputs ==
    {Puzzle(1, cs, ZeroBoard(1)) : cs \in AllClueSets(1)}
    \cup {Puzzle(2, cs, ZeroBoard(2)) : cs \in AllClueSets(2)}
    \cup SearchInputs

\* SolveBoard.__init__ up to place_obvious_numbers
SolveBoardInit ==
    \E p \in SolveBoardInputs :
        /\ board_size = p.n
        /\ left_clues = p.left
        /\ top_clues = p.top
        /\ right_clues = p.right
        /\ bottom_clues = p.bottom
        /\ init_board = p.board
        /\ board = p.board
        /\ stack = <<>>
        /\ result = None
        /\ pc = "sb_new"

\* the last statement of __init__: self.place_obvious_numbers()
SolveBoardConstruct ==
    /\ pc = "sb_new"
    /\ board' = solveboard_place_obvious_numbers(board)
    /\ pc' = "sb_constructed"
    /\ UNCHANGED <<clue_vars, stack, result>>

\* solve: initial_board = deepcopy(self.board), solve_recursive(initial_board, 0, 0)
SolveBoardSolve ==
    /\ pc = "sb_constructed"
    /\ stack' = <<SolveFrame(board)>>
    /\ pc' = "sb_searching"
    /\ UNCHANGED <<clue_vars, board, result>>

\* no empty cell, every line meets its clues: current_board is returned
\* through every caller
SolveLeafAccept ==
    /\ pc = "sb_searching"
    /\ Top.empty_cell = None
    /\ SolveLeafValid(Top.current_board)
    /\ result' = <<Top.current_board>>
    /\ stack' = <<>>
    /\ pc' = "sb_done"
    /\ UNCHANGED <<clue_vars, board>>

SolveLeafReject ==
    /\ pc = "sb_searching"
    /\ Top.empty_cell = None
    /\ ~SolveLeafValid(Top.current_board)
    /\ SolveReturnNone
    /\ UNCHANGED <<clue_vars, board>>

\* is_valid passes: new_board = deepcopy(current_board), new_board[r][c] = num
\* and the first recursive call
TryAccepted ==
    /\ pc = "sb_searching"
    /\ Top.empty_cell # None
    /\ Top.at = "loop"
    /\ Top.num <= board_size
    /\ LET call == is_valid(Top.current_board, Top.empty_cell[1],
                            Top.empty_cell[2], Top.num)
           new_board == [call.board EXCEPT
                            ![Top.empty_cell[1]][Top.empty_cell[2]] = Top.num]
       IN  /\ call.ret
           /\ stack' = Append([stack EXCEPT
                                  ![Len(stack)].current_board = call.board,
                                  ![Len(stack)].new_board = new_board,
                                  ![Len(stack)].at = "first"],
                              SolveFrame(new_board))
    /\ UNCHANGED <<clue_vars, board, result, pc>>

\* is_valid fails: the loop moves to the next candidate
TryRejected ==
    /\ pc = "sb_searching"
    /\ Top.empty_cell # None
    /\ Top.at = "loop"
    /\ Top.num <= board_size
    /\ LET call == is_valid(Top.current_board, Top.empty_cell[1],
                            Top.empty_cell[2], Top.num)
       IN  /\ ~call.ret
           /\ stack' = [stack EXCEPT ![Len(stack)].current_board = call.board,
                                     ![Len(stack)].num = @ + 1]
    /\ UNCHANGED <<clue_vars, board, result, pc>>

\* the first call returned None: solve_recursive(new_board, r + 1, c)
SecondCall ==
    /\ pc = "sb_searching"
    /\ Top.empty_cell # None
    /\ Top.at = "between"
    /\ stack' = Append([stack EXCEPT ![Len(stack)].at = "second"],
                       SolveFrame(Top.new_board))
    /\ UNCHANGED <<clue_vars, board, result, pc>>

\* the loop ran out of candidates: return None
SolveExhausted ==
    /\ pc = "sb_searching"
    /\ Top.empty_cell # None
    /\ Top.at = "loop"
    /\ Top.num > board_size
    /\ SolveReturnNone
    /\ UNCHANGED <<clue_vars, board>>

SolveBoardNext ==
    \/ SolveBoardConstruct
    \/ SolveBoardSolve
    \/ SolveLeafAccept
    \/ SolveLeafReject
    \/ TryAccepted
    \/ TryRejected
    \/ SecondCall
    \/ SolveExhausted

SolveBoardSpec == SolveBoardInit /\ [][SolveBoardNext]_vars

-----------------------------------------------------------------------------
(* C12: sibling branches of solve_recursive                                *)

\* C12: a recursive call that returns None leaves the board it was given
\* as it received it, so the second recursive call on new_board starts from
\* the contents the first call started from.  new_board was copied from
\* current_board for the first call, and current_board is not touched while
\* a callee runs: when the first call has returned, the two are equal.
C12_SiblingsIsolated ==
    (pc = "sb_searching" /\ Top.at = "between") =>
        Top.new_board = Top.current_board

====
